---- MODULE Spec2Model ----
(***************************************************************************)
(* EntityPool (src/src/lib.rs): a generational index allocator.            *)
(*                                                                         *)
(* The pool's four fields are the program state.  Every method is a pure   *)
(* operator over a pool record, translated statement by statement; the     *)
(* actions apply the operators to the fields.  The model is of a build     *)
(* with debug assertions enabled: a failed debug_assert or a failed slice  *)
(* bounds check is the outcome Panic and leaves the pool as it was at the  *)
(* point of the panic.                                                     *)
(*                                                                         *)
(* Widths are scaled: a generation has GenBits bits (32 in the source), a  *)
(* key and a position have KeyBits bits (32 in the source).  Under Spec    *)
(* the pool mints at most MaxKeys <= 2^KeyBits - 1 keys, so the key        *)
(* counter never overflows; SpecUnchecked is the pool compiled without     *)
(* overflow checks, where the counter wraps at its width.                  *)
(***************************************************************************)
EXTENDS Integers, Sequences, FiniteSets, TLC

GenBits == 1

KeyBits == 2

MaxKeys == 3

MaxRecycles == 3

GenMod == 2 ^ GenBits

KeyMod == 2 ^ KeyBits

INVALID_ID == 2 ^ (KeyBits + GenBits) - 1

INVALID_INDEX == 2 ^ KeyBits - 1

VARIABLES
    entities,         \* Vec<Entity>: the dense array of live entities
    entities_free,    \* Vec<Entity>: the stack of returned entities
    entity_index,     \* Vec<u32>: entity_index[key] is the position of key
    next_entity_key,  \* u32: the next fresh key
    fresh,            \* a pool built by new() at the last reset (or at
                      \* construction) and given the same calls since
    issued,           \* history: entities create_entity returned since the
                      \* last reset
    alive,            \* history: entities created and not returned since
                      \* the last reset
    releasedAt,       \* history: returned entity -> number of recycles of
                      \* its key at the time of its latest return
    recycles,         \* history: key -> number of times it was recycled
                      \* since the last reset
    preReset,         \* history: a handle the caller kept from before a
                      \* reset (at most one entity)
    createRun,        \* history: results of the create calls made since the
                      \* pool was last empty, while no return intervened
    runValid,         \* history: createRun is such a run
    last              \* history: the last call, its arguments and results

vars == <<entities, entities_free, entity_index, next_entity_key, fresh,
          issued, alive, releasedAt, recycles, preReset, createRun,
          runValid, last>>

Range(s) == {s[i] : i \in 1 .. Len(s)}

\* Outcomes of a call: a returned value, or a panic.
Panic == [panic |-> TRUE]

Returns(v) == [panic |-> FALSE, value |-> v]

\* Entity::from_key_and_gen: key in the high bits, generation in the low.
from_key_and_gen(k, g) == k * GenMod + g

\* Entity::key
key(e) == e \div GenMod

\* Entity::gen
gen(e) == e % GenMod

\* An addition that saturates at the maximum instead of wrapping.
saturating_add(a, b) == IF a + b >= GenMod THEN GenMod - 1 ELSE a + b

\* u32::wrapping_add at the scaled width
wrapping_add(a, b) == (a + b) % GenMod

\* A removal that shifts the later elements down (Vec::remove).
swap_remove_shift(v, index) ==
    [j \in 1 .. Len(v) - 1 |-> IF j < index + 1 THEN v[j] ELSE v[j + 1]]

\* Vec::swap_remove(index): the last element takes the place of the removed
\* one (index is 0-based; the caller has checked index < len).
swap_remove(v, index) ==
    [j \in 1 .. Len(v) - 1 |-> IF j = index + 1 THEN v[Len(v)] ELSE v[j]]

\* The pool as a value.
Self == [entities        |-> entities,
         entities_free   |-> entities_free,
         entity_index    |-> entity_index,
         next_entity_key |-> next_entity_key]

\* EntityPool::with_capacity: capacities have no effect on the contents.
with_capacity(create_capacity, return_capacity) ==
    [entities        |-> <<>>,
     entities_free   |-> <<>>,
     entity_index    |-> <<>>,
     next_entity_key |-> 0]

\* EntityPool::new
new == with_capacity(0, 0)

\* A recycle that does not advance the generation.
create_entity_same_gen(self) ==
    LET free   == self.entities_free
        popped == free # <<>>
        k      == IF popped THEN key(free[Len(free)]) ELSE self.next_entity_key
        g      == IF popped THEN gen(free[Len(free)]) ELSE 0
        entity == from_key_and_gen(k, g)
        index  == Len(self.entities)
    IN  [self |-> [entities        |-> Append(self.entities, entity),
                   entities_free   |-> IF popped
                                       THEN SubSeq(free, 1, Len(free) - 1)
                                       ELSE free,
                   entity_index    |-> IF k # Len(self.entity_index)
                                       THEN [self.entity_index EXCEPT ![k + 1] = index]
                                       ELSE Append(self.entity_index, index),
                   next_entity_key |-> IF popped THEN self.next_entity_key ELSE k + 1],
         index |-> index,
         entity |-> entity]

\* A create that reports the length after the push as the position.
create_entity_len_after(self) ==
    LET free   == self.entities_free
        popped == free # <<>>
        k      == IF popped THEN key(free[Len(free)]) ELSE self.next_entity_key
        g      == IF popped THEN wrapping_add(gen(free[Len(free)]), 1) ELSE 0
        entity == from_key_and_gen(k, g)
        index  == Len(self.entities)
    IN  [self |-> [entities        |-> Append(self.entities, entity),
                   entities_free   |-> IF popped
                                       THEN SubSeq(free, 1, Len(free) - 1)
                                       ELSE free,
                   entity_index    |-> IF k # Len(self.entity_index)
                                       THEN [self.entity_index EXCEPT ![k + 1] = index]
                                       ELSE Append(self.entity_index, index),
                   next_entity_key |-> IF popped THEN self.next_entity_key ELSE k + 1],
         index |-> index + 1,
         entity |-> entity]

\* A create that leaves a recycled key's table entry as it was.
create_entity_stale_index(self) ==
    LET free   == self.entities_free
        popped == free # <<>>
        k      == IF popped THEN key(free[Len(free)]) ELSE self.next_entity_key
        g      == IF popped THEN wrapping_add(gen(free[Len(free)]), 1) ELSE 0
        entity == from_key_and_gen(k, g)
        index  == Len(self.entities)
    IN  [self |-> [entities        |-> Append(self.entities, entity),
                   entities_free   |-> IF popped
                                       THEN SubSeq(free, 1, Len(free) - 1)
                                       ELSE free,
                   entity_index    |-> IF k # Len(self.entity_index)
                                       THEN self.entity_index
                                       ELSE Append(self.entity_index, index),
                   next_entity_key |-> IF popped THEN self.next_entity_key ELSE k + 1],
         index |-> index,
         entity |-> entity]

\* A create that recycles the oldest returned entity instead of the newest.
create_entity_fifo(self) ==
    LET free   == self.entities_free
        popped == free # <<>>
        k      == IF popped THEN key(free[1]) ELSE self.next_entity_key
        g      == IF popped THEN wrapping_add(gen(free[1]), 1) ELSE 0
        entity == from_key_and_gen(k, g)
        index  == Len(self.entities)
    IN  [self |-> [entities        |-> Append(self.entities, entity),
                   entities_free   |-> IF popped THEN Tail(free) ELSE free,
                   entity_index    |-> IF k # Len(self.entity_index)
                                       THEN [self.entity_index EXCEPT ![k + 1] = index]
                                       ELSE Append(self.entity_index, index),
                   next_entity_key |-> IF popped THEN self.next_entity_key ELSE k + 1],
         index |-> index,
         entity |-> entity]

\* A create that writes a recycled key's position into the table slot of the
\* position instead of the slot of the key.
create_entity_slot_of_position(self) ==
    LET free   == self.entities_free
        popped == free # <<>>
        k      == IF popped THEN key(free[Len(free)]) ELSE self.next_entity_key
        g      == IF popped THEN wrapping_add(gen(free[Len(free)]), 1) ELSE 0
        entity == from_key_and_gen(k, g)
        index  == Len(self.entities)
    IN  [self |-> [entities        |-> Append(self.entities, entity),
                   entities_free   |-> IF popped
                                       THEN SubSeq(free, 1, Len(free) - 1)
                                       ELSE free,
                   entity_index    |-> IF k # Len(self.entity_index)
                                       THEN [self.entity_index EXCEPT ![index + 1] = index]
                                       ELSE Append(self.entity_index, index),
                   next_entity_key |-> IF popped THEN self.next_entity_key ELSE k + 1],
         index |-> index,
         entity |-> entity]

\* A create that reads the top of the free stack without popping it.
create_entity_peek(self) ==
    LET free   == self.entities_free
        popped == free # <<>>
        k      == IF popped THEN key(free[Len(free)]) ELSE self.next_entity_key
        g      == IF popped THEN wrapping_add(gen(free[Len(free)]), 1) ELSE 0
        entity == from_key_and_gen(k, g)
        index  == Len(self.entities)
    IN  [self |-> [entities        |-> Append(self.entities, entity),
                   entities_free   |-> free,
                   entity_index    |-> IF k # Len(self.entity_index)
                                       THEN [self.entity_index EXCEPT ![k + 1] = index]
                                       ELSE Append(self.entity_index, index),
                   next_entity_key |-> IF popped THEN self.next_entity_key ELSE k + 1],
         index |-> index,
         entity |-> entity]

\* EntityPool::create_entity: the pool after the call, and the pair returned.
create_entity(self) ==
    LET free   == self.entities_free
        popped == free # <<>>                       \* entities_free.pop()
        k      == IF popped THEN key(free[Len(free)]) ELSE self.next_entity_key
        g      == IF popped THEN wrapping_add(gen(free[Len(free)]), 1) ELSE 0
        entity == from_key_and_gen(k, g)
        index  == Len(self.entities)
    IN  [self |-> [entities        |-> Append(self.entities, entity),
                   entities_free   |-> IF popped
                                       THEN SubSeq(free, 1, Len(free) - 1)
                                       ELSE free,
                   entity_index    |-> IF k # Len(self.entity_index)
                                       THEN [self.entity_index EXCEPT ![k + 1] = index]
                                       ELSE Append(self.entity_index, index),
                   next_entity_key |-> IF popped THEN self.next_entity_key ELSE k + 1],
         index |-> index,
         entity |-> entity]

\* create_entity compiled without overflow checks: key + 1 (line 122) wraps
\* at the width of the key counter.
create_entity_wrapping(self) ==
    LET r == create_entity(self)
    IN  [r EXCEPT !.self.next_entity_key = @ % KeyMod]

\* A return that does not repair the table entry of the entity swapped in.
return_entity_no_fixup(self, entity) ==
    LET k == key(entity)
    IN  IF entity = INVALID_ID \/ k >= Len(self.entity_index)
        THEN [self |-> self, panic |-> TRUE]
        ELSE LET index == self.entity_index[k + 1]
             IN  IF index >= Len(self.entities)
                 THEN [self |-> self, panic |-> TRUE]
                 ELSE IF gen(entity) # gen(self.entities[index + 1])
                 THEN [self |-> self, panic |-> TRUE]
                 ELSE [self |-> [entities        |-> swap_remove(self.entities, index),
                                 entities_free   |-> Append(self.entities_free, entity),
                                 entity_index    |-> [self.entity_index EXCEPT
                                                        ![k + 1] = INVALID_INDEX],
                                 next_entity_key |-> self.next_entity_key],
                       panic |-> FALSE]

\* A return that leaves the returned key's table entry as it was.
return_entity_no_invalidate(self, entity) ==
    LET k == key(entity)
    IN  IF entity = INVALID_ID \/ k >= Len(self.entity_index)
        THEN [self |-> self, panic |-> TRUE]
        ELSE LET index == self.entity_index[k + 1]
             IN  IF index >= Len(self.entities)
                 THEN [self |-> self, panic |-> TRUE]
                 ELSE IF gen(entity) # gen(self.entities[index + 1])
                 THEN [self |-> self, panic |-> TRUE]
                 ELSE LET removed == swap_remove(self.entities, index)
                      IN  [self |-> [entities        |-> removed,
                                     entities_free   |-> Append(self.entities_free, entity),
                                     entity_index    |->
                                         IF index < Len(removed)
                                         THEN [self.entity_index EXCEPT
                                                 ![key(removed[index + 1]) + 1] = index]
                                         ELSE self.entity_index,
                                     next_entity_key |-> self.next_entity_key],
                           panic |-> FALSE]

\* A return that drops the last element instead of the returned one.
return_entity_pop_last(self, entity) ==
    LET k == key(entity)
    IN  IF entity = INVALID_ID \/ k >= Len(self.entity_index)
        THEN [self |-> self, panic |-> TRUE]
        ELSE LET index == self.entity_index[k + 1]
             IN  IF index >= Len(self.entities)
                 THEN [self |-> self, panic |-> TRUE]
                 ELSE IF gen(entity) # gen(self.entities[index + 1])
                 THEN [self |-> self, panic |-> TRUE]
                 ELSE LET removed == SubSeq(self.entities, 1, Len(self.entities) - 1)
                          marked  == [self.entity_index EXCEPT ![k + 1] = INVALID_INDEX]
                      IN  [self |-> [entities        |-> removed,
                                     entities_free   |-> Append(self.entities_free, entity),
                                     entity_index    |->
                                         IF index < Len(removed)
                                         THEN [marked EXCEPT
                                                 ![key(removed[index + 1]) + 1] = index]
                                         ELSE marked,
                                     next_entity_key |-> self.next_entity_key],
                           panic |-> FALSE]

\* A return whose generation assertion is missing.
return_entity_no_gen_check(self, entity) ==
    LET k == key(entity)
    IN  IF entity = INVALID_ID \/ k >= Len(self.entity_index)
        THEN [self |-> self, panic |-> TRUE]
        ELSE LET index == self.entity_index[k + 1]
             IN  IF index >= Len(self.entities)
                 THEN [self |-> self, panic |-> TRUE]
                 ELSE LET removed == swap_remove(self.entities, index)
                          marked  == [self.entity_index EXCEPT ![k + 1] = INVALID_INDEX]
                      IN  [self |-> [entities        |-> removed,
                                     entities_free   |-> Append(self.entities_free, entity),
                                     entity_index    |->
                                         IF index < Len(removed)
                                         THEN [marked EXCEPT
                                                 ![key(removed[index + 1]) + 1] = index]
                                         ELSE marked,
                                     next_entity_key |-> self.next_entity_key],
                           panic |-> FALSE]

\* EntityPool::return_entity: the pool after the call, and whether the call
\* panicked.  Every check precedes the first write, so a panic leaves the
\* pool unchanged.
return_entity(self, entity) ==
    LET k == key(entity)
    IN  IF entity = INVALID_ID                      \* debug_assert!, line 181
           \/ k >= Len(self.entity_index)           \* bounds check, line 183
        THEN [self |-> self, panic |-> TRUE]
        ELSE LET index == self.entity_index[k + 1]
             IN  IF index >= Len(self.entities)     \* bounds check, line 184
                 THEN [self |-> self, panic |-> TRUE]
                 ELSE IF gen(entity) # gen(self.entities[index + 1])
                 THEN [self |-> self, panic |-> TRUE]  \* debug_assert_eq!, line 184
                 ELSE LET removed == swap_remove(self.entities, index)
                          marked  == [self.entity_index EXCEPT ![k + 1] = INVALID_INDEX]
                      IN  [self |-> [entities        |-> removed,
                                     entities_free   |-> Append(self.entities_free, entity),
                                     entity_index    |->
                                         IF index < Len(removed)   \* entities.get(index)
                                         THEN [marked EXCEPT
                                                 ![key(removed[index + 1]) + 1] = index]
                                         ELSE marked,
                                     next_entity_key |-> self.next_entity_key],
                           panic |-> FALSE]

\* EntityPool::index_of
index_of(self, entity) ==
    LET k == key(entity)
    IN  IF entity = INVALID_ID \/ k >= Len(self.entity_index)
        THEN Panic
        ELSE LET index == self.entity_index[k + 1]
             IN  IF index >= Len(self.entities)
                 THEN Panic
                 ELSE IF gen(entity) # gen(self.entities[index + 1])
                 THEN Panic
                 ELSE Returns(index)

\* EntityPool::entity_at
entity_at(self, index) ==
    IF index >= Len(self.entities) THEN Panic ELSE Returns(self.entities[index + 1])

\* An is_alive that compares the key only.
is_alive_key_only(self, entity) ==
    LET k == key(entity)
    IN  IF entity = INVALID_ID \/ k >= Len(self.entity_index)
        THEN Panic
        ELSE LET index == self.entity_index[k + 1]
             IN  IF index # INVALID_INDEX
                 THEN IF index >= Len(self.entities)
                      THEN Panic
                      ELSE Returns(k = key(self.entities[index + 1]))
                 ELSE Returns(FALSE)

\* EntityPool::is_alive
is_alive(self, entity) ==
    LET k == key(entity)
    IN  IF entity = INVALID_ID                      \* debug_assert!, line 225
           \/ k >= Len(self.entity_index)           \* bounds check, line 227
        THEN Panic
        ELSE LET index == self.entity_index[k + 1]
             IN  IF index # INVALID_INDEX
                 THEN IF index >= Len(self.entities)   \* bounds check, line 229
                      THEN Panic
                      ELSE LET other == self.entities[index + 1]
                           IN  Returns(k = key(other) /\ gen(entity) = gen(other))
                 ELSE Returns(FALSE)

\* EntityPool::iter: the dense array in its physical order.
iter(self) == self.entities

\* A reset that leaves the key counter as it was.
reset_keeps_counter(self) ==
    [entities        |-> <<>>,
     entities_free   |-> <<>>,
     entity_index    |-> <<>>,
     next_entity_key |-> self.next_entity_key]

\* A reset that leaves the dense array and the table as they were.
reset_keeps_live(self) ==
    [entities        |-> self.entities,
     entities_free   |-> <<>>,
     entity_index    |-> self.entity_index,
     next_entity_key |-> 0]

\* EntityPool::reset
reset(self) ==
    [entities        |-> <<>>,
     entities_free   |-> <<>>,
     entity_index    |-> <<>>,
     next_entity_key |-> 0]

\* EntityPool::len, with its debug assertion.
len(self) ==
    IF Len(self.entities) # Len(self.entity_index)
    THEN Panic
    ELSE Returns(Len(self.entities))

\* EntityPool::len_returned
len_returned(self) == Len(self.entities_free)

\* impl Index<u32> for EntityPool: pool[index]
Index_u32(self, index) ==
    IF index >= Len(self.entities) THEN Panic ELSE Returns(self.entities[index + 1])

\* impl Index<Entity> for EntityPool: pool[entity]; the table entry of the
\* entity's key, with no assertion on the entity.
Index_Entity(self, entity) ==
    IF key(entity) >= Len(self.entity_index)
    THEN Panic
    ELSE Returns(self.entity_index[key(entity) + 1])

----------------------------------------------------------------------------

\* The values of a key.
Keys == 0 .. KeyMod - 1

TotalRecycles ==
    LET RECURSIVE Sum(_)
        Sum(k) == IF k < 0 THEN 0 ELSE recycles[k] + Sum(k - 1)
    IN  Sum(KeyMod - 1)

NoCall == [op |-> "new", index |-> 0, entity |-> INVALID_ID, lenBefore |-> 0,
           setBefore |-> {}, dup |-> FALSE, dupEver |-> FALSE,
           freshIndex |-> 0, freshEntity |-> INVALID_ID,
           minted |-> FALSE, tableBefore |-> 0, popped |-> INVALID_ID,
           panicked |-> FALSE, before |-> new, indexOf |-> Panic]

Init ==
    /\ entities = new.entities
    /\ entities_free = new.entities_free
    /\ entity_index = new.entity_index
    /\ next_entity_key = new.next_entity_key
    /\ fresh = new
    /\ issued = {}
    /\ alive = {}
    /\ releasedAt = <<>>
    /\ recycles = [k \in Keys |-> 0]
    /\ preReset = {}
    /\ createRun = <<>>
    /\ runValid = TRUE
    /\ last = NoCall

\* The fields and the history after a create call with outcome r on the pool
\* and f on the fresh pool.
Created(r, f) ==
    /\ LET k  == key(r.entity)
       IN  /\ entities' = r.self.entities
           /\ entities_free' = r.self.entities_free
           /\ entity_index' = r.self.entity_index
           /\ next_entity_key' = r.self.next_entity_key
           /\ fresh' = f.self
           /\ issued' = issued \cup {r.entity}
           /\ alive' = alive \cup {r.entity}
           /\ recycles' = IF entities_free = <<>>
                          THEN recycles
                          ELSE [recycles EXCEPT ![k] = @ + 1]
           /\ createRun' = Append(createRun, [index |-> r.index, entity |-> r.entity])
           /\ last' = [op |-> "create", index |-> r.index, entity |-> r.entity,
                       lenBefore |-> Len(entities), setBefore |-> Range(entities),
                       dup |-> r.entity \in issued,
                       dupEver |-> r.entity \in issued \cup preReset,
                       freshIndex |-> f.index, freshEntity |-> f.entity,
                       minted |-> entities_free = <<>>,
                       tableBefore |-> Len(entity_index),
                       popped |-> IF entities_free = <<>>
                                  THEN INVALID_ID
                                  ELSE entities_free[Len(entities_free)],
                       panicked |-> FALSE, before |-> new, indexOf |-> Panic]
    /\ UNCHANGED <<releasedAt, preReset, runValid>>

\* pool.create_entity()
CreateEntity ==
    /\ IF entities_free = <<>>
       THEN next_entity_key < MaxKeys
       ELSE TotalRecycles < MaxRecycles
    /\ Created(create_entity(Self), create_entity(fresh))

\* pool.create_entity() in a build without overflow checks; the pool is
\* explored up to 2^KeyBits live entities.
CreateEntityUnchecked ==
    /\ Len(entities) < KeyMod
    /\ entities_free # <<>> => TotalRecycles < MaxRecycles
    /\ Created(create_entity_wrapping(Self), create_entity_wrapping(fresh))

\* pool.return_entity(e); a call that panics leaves everything as it was
ReturnEntity(e) ==
    LET r == return_entity(Self, e)
        f == return_entity(fresh, e)
    IN  /\ entities' = r.self.entities
        /\ entities_free' = r.self.entities_free
        /\ entity_index' = r.self.entity_index
        /\ next_entity_key' = r.self.next_entity_key
        /\ fresh' = f.self
        /\ IF r.panic
           THEN UNCHANGED <<alive, releasedAt, createRun, runValid, last>>
           ELSE /\ alive' = alive \ {e}
                /\ releasedAt' = [x \in DOMAIN releasedAt \cup {e} |->
                                    IF x = e THEN recycles[key(e)] ELSE releasedAt[x]]
                /\ createRun' = <<>>
                /\ runValid' = (r.self.entities = <<>>)
                /\ last' = [NoCall EXCEPT !.op = "return", !.entity = e,
                                          !.index = entity_index[key(e) + 1],
                                          !.lenBefore = Len(entities),
                                          !.setBefore = Range(entities)]
        /\ UNCHANGED <<issued, recycles, preReset>>

\* pool.reset()
Reset ==
    /\ LET r == reset(Self)
       IN  /\ entities' = r.entities
           /\ entities_free' = r.entities_free
           /\ entity_index' = r.entity_index
           /\ next_entity_key' = r.next_entity_key
    /\ fresh' = new
    /\ issued' = {}
    /\ alive' = {}
    /\ releasedAt' = <<>>
    /\ recycles' = [k \in Keys |-> 0]
    /\ \/ /\ issued \cup preReset = {}
          /\ preReset' = {}
       \/ \E e \in issued \cup preReset : preReset' = {e}
    /\ createRun' = <<>>
    /\ runValid' = TRUE
    /\ last' = [NoCall EXCEPT !.op = "reset"]

\* The handles a caller passes to return_entity: those of the live entities,
\* the one kept across a reset, and the default entity.
Handles == alive \cup preReset \cup {INVALID_ID}

Next ==
    \/ CreateEntity
    \/ \E e \in Handles : ReturnEntity(e)
    \/ Reset

Spec == Init /\ [][Next]_vars

\* The handles a caller must not pass: the default entity and every entity
\* issued since the last reset that is no longer alive (released and not
\* recycled, or stale because its key was recycled).
MisuseHandles == (issued \ alive) \cup {INVALID_ID}

\* pool.index_of(e) and pool.return_entity(e) with a handle that must not be
\* passed; the outcomes and the pool before the call are recorded.
ReturnMisuse(e) ==
    LET r == return_entity(Self, e)
    IN  /\ entities' = r.self.entities
        /\ entities_free' = r.self.entities_free
        /\ entity_index' = r.self.entity_index
        /\ next_entity_key' = r.self.next_entity_key
        /\ last' = [NoCall EXCEPT !.op = "misuse", !.entity = e,
                                  !.panicked = r.panic, !.before = Self,
                                  !.indexOf = index_of(Self, e)]
        /\ UNCHANGED <<fresh, issued, alive, releasedAt, recycles, preReset,
                       createRun, runValid>>

\* Create and return calls, and misuse, on a pool built with debug assertions.
NextMisuse ==
    \/ CreateEntity
    \/ \E e \in alive : ReturnEntity(e)
    \/ \E e \in MisuseHandles : ReturnMisuse(e)

SpecMisuse == Init /\ [][NextMisuse]_vars

\* Create and return calls on a pool compiled without overflow checks.
NextUnchecked ==
    \/ CreateEntityUnchecked
    \/ \E e \in alive : ReturnEntity(e)

SpecUnchecked == Init /\ [][NextUnchecked]_vars

----------------------------------------------------------------------------

\* C1. Indirection consistency: for every entity e in the dense array,
\* index_of(e) returns a position p below the length of the dense array and
\* entity_at(p) is e.
IndirectionConsistency ==
    \A i \in 1 .. Len(entities) :
        LET e == entities[i]
            r == index_of(Self, e)
        IN  /\ r # Panic
            /\ r.value < Len(entities)
            /\ entity_at(Self, r.value) = Returns(e)

\* A return has moved an entity away from the position it was created at.
IndirectionAfterSwap ==
    /\ last.op = "return"
    /\ Len(entities) >= 2
    /\ \E i \in 1 .. Len(entities) :
        /\ key(entities[i]) # i - 1
        /\ index_of(Self, entities[i]) = Returns(i - 1)

\* C2 as stated. Once an entity was returned, is_alive of it is false in
\* every later state, whatever create and return calls follow.
DeadForever ==
    \A e \in DOMAIN releasedAt : is_alive(Self, e) = Returns(FALSE)

\* C2 as amended. A returned entity is reported not alive as long as its key
\* has been recycled fewer than 2^GenBits times since the return.
DeadUntilWrap ==
    \A e \in DOMAIN releasedAt :
        recycles[key(e)] - releasedAt[e] < GenMod
            => is_alive(Self, e) = Returns(FALSE)

\* A returned entity whose key is live again under another generation.
DeadWhileKeyRecycled ==
    \E e \in DOMAIN releasedAt :
        /\ recycles[key(e)] > releasedAt[e]
        /\ recycles[key(e)] - releasedAt[e] < GenMod
        /\ \E d \in Range(entities) : key(d) = key(e)
        /\ is_alive(Self, e) = Returns(FALSE)

\* C3 as stated. The entity create_entity returns differs from every entity
\* it returned before on this pool, since construction.
NeverReissued ==
    last.op = "create" => ~last.dupEver

\* C3 as amended. The entity create_entity returns differs from every entity
\* it returned since the last reset, as long as its key has been recycled
\* fewer than 2^GenBits times since then.
UniqueSinceResetUntilWrap ==
    (last.op = "create" /\ recycles[key(last.entity)] < GenMod) => ~last.dup

\* A create has recycled a key, short of the wrap of its generation.
RecycledCreate ==
    /\ last.op = "create"
    /\ recycles[key(last.entity)] >= 1
    /\ recycles[key(last.entity)] < GenMod
    /\ gen(last.entity) # 0
    /\ ~last.dup

\* C4. For every entity issued since the last reset, is_alive is true exactly
\* when the entity is in the dense array; every entity iteration yields is
\* alive.
AliveIffDense ==
    /\ \A e \in issued : is_alive(Self, e) = Returns(e \in Range(entities))
    /\ \A i \in 1 .. Len(iter(Self)) : is_alive(Self, iter(Self)[i]) = Returns(TRUE)

\* An issued entity is gone while its key is live under another generation.
StaleHandleOfLiveKey ==
    \E e \in issued :
        /\ e \notin Range(entities)
        /\ \E d \in Range(entities) : key(d) = key(e)
        /\ is_alive(Self, e) = Returns(FALSE)

\* C5. create_entity returns the position the new entity occupies after the
\* call, which is the number of live entities before it; consecutive creates
\* on an empty pool return 0, 1, ... and pairwise distinct entities, also
\* when they recycle keys.
CreatePosition ==
    /\ last.op = "create" =>
        /\ last.index = last.lenBefore
        /\ Len(entities) = last.lenBefore + 1
        /\ entity_at(Self, last.index) = Returns(last.entity)
    /\ runValid =>
        \A i \in 1 .. Len(createRun) :
            /\ createRun[i].index = i - 1
            /\ \A j \in 1 .. Len(createRun) :
                j # i => createRun[j].entity # createRun[i].entity

\* A run of creates on an emptied pool that recycled keys.
RecyclingCreateRun ==
    /\ runValid
    /\ last.op = "create"
    /\ Len(createRun) >= 2
    /\ \E i \in 1 .. Len(createRun) : gen(createRun[i].entity) # 0

\* C6. Swap-compaction: a return of a live entity e leaves a dense array one
\* shorter whose entities are the previous ones without e; each remaining
\* entity is alive and found at its own position, and e is not alive.
SwapCompaction ==
    last.op = "return" =>
        /\ Len(entities) = last.lenBefore - 1
        /\ Range(entities) = last.setBefore \ {last.entity}
        /\ Cardinality(Range(entities)) = Len(entities)
        /\ \A r \in Range(entities) :
            /\ is_alive(Self, r) = Returns(TRUE)
            /\ index_of(Self, r) # Panic
            /\ entity_at(Self, index_of(Self, r).value) = Returns(r)
        /\ is_alive(Self, last.entity) = Returns(FALSE)

\* The first of three live entities was returned.
ReturnedFirstOfThree ==
    /\ last.op = "return"
    /\ last.lenBefore >= 3
    /\ last.index = 0

\* C7. Iteration yields exactly the live entities, each once, the i-th at
\* position i by index_of and entity_at.
IterationAgreement ==
    LET it == iter(Self)
    IN  /\ Range(it) = alive
        /\ Len(it) = Cardinality(alive)
        /\ \A i \in 1 .. Len(it) :
            /\ index_of(Self, it[i]) = Returns(i - 1)
            /\ entity_at(Self, i - 1) = Returns(it[i])

\* Iteration over a pool that holds a recycled entity and has dead keys.
IterationAfterRecycle ==
    /\ Len(iter(Self)) >= 2
    /\ entities_free # <<>>
    /\ \E i \in 1 .. Len(iter(Self)) : gen(iter(Self)[i]) # 0

\* C8. len() succeeds in every reachable state: its assertion that the dense
\* array and the indirection table have the same length holds.
LenSucceeds ==
    len(Self) # Panic

\* C9 as stated. is_alive never returns true for an entity issued before a
\* reset.
PreResetNeverAlive ==
    \A e \in preReset : is_alive(Self, e) # Returns(TRUE)

\* C9 as amended. is_alive returns true for an entity issued before a reset
\* exactly while an entity of the same key and generation, created after the
\* reset, is live.
PreResetAliveOnlyIfReissued ==
    \A e \in preReset : (is_alive(Self, e) = Returns(TRUE)) <=> (e \in alive)

\* A handle from before a reset is reported not alive while the pool has
\* issued its key again.
PreResetHandleDead ==
    /\ preReset # {}
    /\ entities # <<>>
    /\ \A e \in preReset : is_alive(Self, e) = Returns(FALSE)

\* C10. reset() returns the pool to its initial state, and the calls made
\* after it return what they return on a newly constructed pool.
ResetIsInitial ==
    /\ last.op = "reset" =>
        /\ Self = new
        /\ len(Self) = Returns(0)
        /\ len_returned(Self) = 0
    /\ Self = fresh
    /\ last.op = "create" =>
        /\ last.index = last.freshIndex
        /\ last.entity = last.freshEntity

\* After a reset of a used pool, a create has recycled a key.
RecycleAfterReset ==
    /\ preReset # {}
    /\ last.op = "create"
    /\ gen(last.entity) # 0

\* C11. The subscript accessors agree with the named ones: pool[i] with
\* entity_at(i) at every position, pool[e] with index_of(e) for every alive
\* entity e, and the two position accessors also agree in outcome for an
\* entity that is not alive.
SubscriptsAgree ==
    /\ \A i \in 0 .. Len(entities) : Index_u32(Self, i) = entity_at(Self, i)
    /\ \A e \in issued : Index_Entity(Self, e) = index_of(Self, e)

\* C12. create_entity never returns the default entity (all bits set), also
\* when the maximum key is issued and recycled up to the maximum generation.
NeverSentinel ==
    last.op = "create" => last.entity # INVALID_ID

\* C13. create_entity pops the top of the free stack when there is one,
\* reuses its key with its generation plus one modulo 2^GenBits and leaves the
\* key counter alone; otherwise it issues the key counter with generation 0
\* and increments the counter.
CreateChoice ==
    [][Len(entities') = Len(entities) + 1 =>
        LET created == entities'[Len(entities')]
        IN  /\ last'.op = "create"
            /\ last'.entity = created
            /\ IF entities_free # <<>>
               THEN LET top == entities_free[Len(entities_free)]
                    IN  /\ entities_free' = SubSeq(entities_free, 1, Len(entities_free) - 1)
                        /\ key(created) = key(top)
                        /\ gen(created) = (gen(top) + 1) % GenMod
                        /\ next_entity_key' = next_entity_key
               ELSE /\ entities_free' = <<>>
                    /\ key(created) = next_entity_key
                    /\ gen(created) = 0
                    /\ next_entity_key' = next_entity_key + 1]_vars

\* A create has recycled the top of a free stack that held more entities.
RecycledTopOfStack ==
    /\ last.op = "create"
    /\ entities_free # <<>>
    /\ gen(last.entity) # 0
    /\ key(last.entity) # key(entities_free[1])

\* C14. return_entity(e) with e at position p moves only the last element:
\* the entity that was last is afterwards at p with table entry p (unless p
\* was the last position), every other remaining entity keeps its position,
\* e's table entry becomes INVALID_INDEX and e is pushed on the free stack.
ReturnMovesOnlyLast ==
    [][(Len(entities') = Len(entities) - 1 /\ entity_index' # <<>>) =>
        LET e == last'.entity
            p == entity_index[key(e) + 1]
            n == Len(entities)
        IN  /\ last'.op = "return"
            /\ entities[p + 1] = e
            /\ p # n - 1 =>
                /\ entities'[p + 1] = entities[n]
                /\ entity_index'[key(entities[n]) + 1] = p
            /\ \A i \in 1 .. n - 1 :
                i # p + 1 =>
                    /\ entities'[i] = entities[i]
                    /\ entity_index'[key(entities[i]) + 1] = i - 1
            /\ entity_index'[key(e) + 1] = INVALID_INDEX
            /\ entities_free' = Append(entities_free, e)]_vars

\* The middle of three live entities was returned: the last one moved, the
\* first one stayed.
ReturnedMiddleOfThree ==
    /\ last.op = "return"
    /\ last.lenBefore >= 3
    /\ last.index = 1
    /\ Len(entities) >= 2

\* C15. create_entity leaves every entity that was alive at its position
\* (index_of and entity_at at the old positions are unchanged), changes the
\* free stack by the popped element only, and writes no other key's table
\* entry.
CreateKeepsPositions ==
    [][Len(entities') = Len(entities) + 1 =>
        LET created == entities'[Len(entities')]
        IN  /\ \A i \in 1 .. Len(entities) :
                /\ entity_at(Self', i - 1) = entity_at(Self, i - 1)
                /\ index_of(Self', entities[i]) = index_of(Self, entities[i])
                /\ index_of(Self', entities[i]) = Returns(i - 1)
            /\ \/ entities_free' = entities_free
               \/ entities_free' = SubSeq(entities_free, 1, Len(entities_free) - 1)
            /\ \A k \in 0 .. Len(entity_index) - 1 :
                k # key(created) => entity_index'[k + 1] = entity_index[k + 1]]_vars

\* A create has recycled a key beside live entities, at a position that is
\* not the key.
RecycledBesideLive ==
    /\ last.op = "create"
    /\ last.lenBefore >= 1
    /\ gen(last.entity) # 0
    /\ key(last.entity) # last.index

\* C16. Key bookkeeping: the table's length equals the key counter, the keys
\* issued since the last reset are exactly 0 .. next_entity_key - 1, and a
\* freshly minted key equals the table's length at the moment it is appended.
KeyBookkeeping ==
    /\ Len(entity_index) = next_entity_key
    /\ {key(e) : e \in issued} = 0 .. next_entity_key - 1
    /\ (last.op = "create" /\ last.minted) =>
        /\ key(last.entity) = last.tableBefore
        /\ Len(entity_index) = last.tableBefore + 1

\* A key was minted after another key had been recycled.
MintedAfterRecycle ==
    /\ last.op = "create"
    /\ last.minted
    /\ last.tableBefore >= 1
    /\ \E e \in issued : gen(e) # 0

\* C17. The number of live entities equals the number of keys whose table
\* entry is not INVALID_INDEX, and a key's entry is INVALID_INDEX exactly when
\* no entity of that key is in the dense array.
LiveCountMatchesTable ==
    /\ Len(entities) =
        Cardinality({k \in 0 .. Len(entity_index) - 1 :
                        entity_index[k + 1] # INVALID_INDEX})
    /\ \A k \in 0 .. Len(entity_index) - 1 :
        (entity_index[k + 1] = INVALID_INDEX)
            <=> ~ \E e \in Range(entities) : key(e) = k

\* The table holds dead and live keys after a return has moved an entity.
DeadAndLiveKeys ==
    /\ Len(entities) >= 2
    /\ \E k \in 0 .. Len(entity_index) - 1 : entity_index[k + 1] = INVALID_INDEX
    /\ \E i \in 1 .. Len(entities) : key(entities[i]) > i - 1

\* C20. Key partition: each issued key 0 .. next_entity_key - 1 belongs to
\* exactly one entity, which is either in the dense array or in the free
\* stack; the two lengths add up to the key counter, and every entity in the
\* free stack has an invalid table entry.
KeyPartition ==
    /\ \A k \in 0 .. next_entity_key - 1 :
        Cardinality({i \in 1 .. Len(entities) : key(entities[i]) = k})
          + Cardinality({i \in 1 .. Len(entities_free) : key(entities_free[i]) = k})
          = 1
    /\ \A e \in Range(entities) \cup Range(entities_free) : key(e) < next_entity_key
    /\ Len(entities) + len_returned(Self) = next_entity_key
    /\ \A i \in 1 .. Len(entities_free) :
        entity_index[key(entities_free[i]) + 1] = INVALID_INDEX

\* Keys are split between the dense array and a free stack of two, one of
\* them having been recycled before.
KeysInBothStores ==
    /\ entities # <<>>
    /\ Len(entities_free) >= 2
    /\ \E i \in 1 .. Len(entities_free) : gen(entities_free[i]) # 0

\* C18. Generation wraparound: each recycle issues the released generation
\* plus one modulo 2^GenBits; while a key has been recycled fewer than
\* 2^GenBits times no entity issued for it repeats, and the recycle that
\* completes 2^GenBits recycles returns a value equal to an entity released
\* 2^GenBits recycles earlier, whose old handle is_alive then reports alive.
GenerationWraparound ==
    last.op = "create" =>
        LET e == last.entity
            n == recycles[key(e)]
        IN  /\ ~last.minted =>
                /\ key(e) = key(last.popped)
                /\ gen(e) = (gen(last.popped) + 1) % GenMod
            /\ gen(e) = n % GenMod
            /\ n < GenMod => ~last.dup
            /\ n >= GenMod =>
                /\ last.dup
                /\ e \in DOMAIN releasedAt
                /\ releasedAt[e] = n - GenMod
                /\ is_alive(Self, e) = Returns(TRUE)

\* A key has been recycled exactly 2^GenBits times.
WrappedRecycle ==
    /\ last.op = "create"
    /\ recycles[key(last.entity)] = GenMod
    /\ last.dup
    /\ last.entity \in DOMAIN releasedAt

\* C19. With debug assertions, return_entity(e) and index_of(e) for the
\* default entity, a released entity or a stale entity abort: the call
\* panics, no field of the pool is modified, and index_of reports nothing.
MisuseAborts ==
    last.op = "misuse" =>
        /\ last.panicked
        /\ Self = last.before
        /\ last.indexOf = Panic

\* A stale handle was passed while its key is live under another generation.
MisusedStaleHandle ==
    /\ last.op = "misuse"
    /\ last.entity # INVALID_ID
    /\ \E d \in Range(entities) :
        /\ key(d) = key(last.entity)
        /\ gen(d) # gen(last.entity)

====
